---- MODULE Spec2Model ----
(***************************************************************************)
(* Model of scripts/precompute-eval-embeddings.py: the CodeSearchNet       *)
(* evaluation-dataset pipeline (annotation loader, query selector,         *)
(* candidate sampler, snippet resolver run on a thread pool, dataset       *)
(* assembler, embedding stage, serializer).                                *)
(*                                                                         *)
(* Python values are encoded as follows.  A str is a sequence of           *)
(* characters, each a string: the character itself, one of the escapes     *)
(* \t \n \f \r, or "U+XXXX" for any other character that is not printable  *)
(* ASCII.                                                                  *)
(* An optional value is a sequence of length <= 1:                         *)
(* None is << >> and a present value v is << v >>.                         *)
(***************************************************************************)
EXTENDS Integers, Sequences, FiniteSets, TLC

\* ---------------------------------------------------------------- config
TARGET_QUERIES == 25
MAX_CANDIDATES == 12
MIN_POSITIVES == 2
RELEVANCE_THRESHOLD == 2
MIN_SNIPPET_LEN == 30
MAX_SNIPPET_LEN == 2000
DEFAULT_WINDOW == 40

\* ---------------------------------------------------------------- bounds
MaxRows == 3          \* rows of the annotation feed
MaxCands == 15        \* candidates of one query in the sampler specification
MaxFileLines == 43    \* lines of a fetched file in the resolver specification
MaxLineRef == 10      \* largest line number written in a #L fragment

\* ------------------------------------------------------- python built-ins
None == << >>
Some(v) == << v >>

Min(a, b) == IF a < b THEN a ELSE b
Max(a, b) == IF a > b THEN a ELSE b

\* s[a:b] of Python, for any integers a and b (negative ones count from the end)
PySlice(s, a, b) ==
    LET n  == Len(s)
        lo == IF a < 0 THEN Max(0, n + a) ELSE Min(a, n)
        hi == IF b < 0 THEN Max(0, n + b) ELSE Min(b, n)
    IN  IF hi <= lo THEN << >> ELSE SubSeq(s, lo + 1, hi)

\* s[:b] of Python
PySliceTo(s, b) == PySlice(s, 0, b)

\* the digits str() and f-strings write
DigitChars == << "0", "1", "2", "3", "4", "5", "6", "7", "8", "9" >>

\* the characters \d matches and int() reads as digits: the decimal digits of
\* Unicode, one run of ten (of values 0 to 9) per script, ASCII first
DigitRuns ==
    <<
       << "0", "1", "2", "3", "4", "5", "6", "7", "8", "9" >>,
       << "U+0660", "U+0661", "U+0662", "U+0663", "U+0664", "U+0665", "U+0666", "U+0667", "U+0668", "U+0669" >>,
       << "U+06F0", "U+06F1", "U+06F2", "U+06F3", "U+06F4", "U+06F5", "U+06F6", "U+06F7", "U+06F8", "U+06F9" >>,
       << "U+07C0", "U+07C1", "U+07C2", "U+07C3", "U+07C4", "U+07C5", "U+07C6", "U+07C7", "U+07C8", "U+07C9" >>,
       << "U+0966", "U+0967", "U+0968", "U+0969", "U+096A", "U+096B", "U+096C", "U+096D", "U+096E", "U+096F" >>,
       << "U+09E6", "U+09E7", "U+09E8", "U+09E9", "U+09EA", "U+09EB", "U+09EC", "U+09ED", "U+09EE", "U+09EF" >>,
       << "U+0A66", "U+0A67", "U+0A68", "U+0A69", "U+0A6A", "U+0A6B", "U+0A6C", "U+0A6D", "U+0A6E", "U+0A6F" >>,
       << "U+0AE6", "U+0AE7", "U+0AE8", "U+0AE9", "U+0AEA", "U+0AEB", "U+0AEC", "U+0AED", "U+0AEE", "U+0AEF" >>,
       << "U+0B66", "U+0B67", "U+0B68", "U+0B69", "U+0B6A", "U+0B6B", "U+0B6C", "U+0B6D", "U+0B6E", "U+0B6F" >>,
       << "U+0BE6", "U+0BE7", "U+0BE8", "U+0BE9", "U+0BEA", "U+0BEB", "U+0BEC", "U+0BED", "U+0BEE", "U+0BEF" >>,
       << "U+0C66", "U+0C67", "U+0C68", "U+0C69", "U+0C6A", "U+0C6B", "U+0C6C", "U+0C6D", "U+0C6E", "U+0C6F" >>,
       << "U+0CE6", "U+0CE7", "U+0CE8", "U+0CE9", "U+0CEA", "U+0CEB", "U+0CEC", "U+0CED", "U+0CEE", "U+0CEF" >>,
       << "U+0D66", "U+0D67", "U+0D68", "U+0D69", "U+0D6A", "U+0D6B", "U+0D6C", "U+0D6D", "U+0D6E", "U+0D6F" >>,
       << "U+0DE6", "U+0DE7", "U+0DE8", "U+0DE9", "U+0DEA", "U+0DEB", "U+0DEC", "U+0DED", "U+0DEE", "U+0DEF" >>,
       << "U+0E50", "U+0E51", "U+0E52", "U+0E53", "U+0E54", "U+0E55", "U+0E56", "U+0E57", "U+0E58", "U+0E59" >>,
       << "U+0ED0", "U+0ED1", "U+0ED2", "U+0ED3", "U+0ED4", "U+0ED5", "U+0ED6", "U+0ED7", "U+0ED8", "U+0ED9" >>,
       << "U+0F20", "U+0F21", "U+0F22", "U+0F23", "U+0F24", "U+0F25", "U+0F26", "U+0F27", "U+0F28", "U+0F29" >>,
       << "U+1040", "U+1041", "U+1042", "U+1043", "U+1044", "U+1045", "U+1046", "U+1047", "U+1048", "U+1049" >>,
       << "U+1090", "U+1091", "U+1092", "U+1093", "U+1094", "U+1095", "U+1096", "U+1097", "U+1098", "U+1099" >>,
       << "U+17E0", "U+17E1", "U+17E2", "U+17E3", "U+17E4", "U+17E5", "U+17E6", "U+17E7", "U+17E8", "U+17E9" >>,
       << "U+1810", "U+1811", "U+1812", "U+1813", "U+1814", "U+1815", "U+1816", "U+1817", "U+1818", "U+1819" >>,
       << "U+1946", "U+1947", "U+1948", "U+1949", "U+194A", "U+194B", "U+194C", "U+194D", "U+194E", "U+194F" >>,
       << "U+19D0", "U+19D1", "U+19D2", "U+19D3", "U+19D4", "U+19D5", "U+19D6", "U+19D7", "U+19D8", "U+19D9" >>,
       << "U+1A80", "U+1A81", "U+1A82", "U+1A83", "U+1A84", "U+1A85", "U+1A86", "U+1A87", "U+1A88", "U+1A89" >>,
       << "U+1A90", "U+1A91", "U+1A92", "U+1A93", "U+1A94", "U+1A95", "U+1A96", "U+1A97", "U+1A98", "U+1A99" >>,
       << "U+1B50", "U+1B51", "U+1B52", "U+1B53", "U+1B54", "U+1B55", "U+1B56", "U+1B57", "U+1B58", "U+1B59" >>,
       << "U+1BB0", "U+1BB1", "U+1BB2", "U+1BB3", "U+1BB4", "U+1BB5", "U+1BB6", "U+1BB7", "U+1BB8", "U+1BB9" >>,
       << "U+1C40", "U+1C41", "U+1C42", "U+1C43", "U+1C44", "U+1C45", "U+1C46", "U+1C47", "U+1C48", "U+1C49" >>,
       << "U+1C50", "U+1C51", "U+1C52", "U+1C53", "U+1C54", "U+1C55", "U+1C56", "U+1C57", "U+1C58", "U+1C59" >>,
       << "U+A620", "U+A621", "U+A622", "U+A623", "U+A624", "U+A625", "U+A626", "U+A627", "U+A628", "U+A629" >>,
       << "U+A8D0", "U+A8D1", "U+A8D2", "U+A8D3", "U+A8D4", "U+A8D5", "U+A8D6", "U+A8D7", "U+A8D8", "U+A8D9" >>,
       << "U+A900", "U+A901", "U+A902", "U+A903", "U+A904", "U+A905", "U+A906", "U+A907", "U+A908", "U+A909" >>,
       << "U+A9D0", "U+A9D1", "U+A9D2", "U+A9D3", "U+A9D4", "U+A9D5", "U+A9D6", "U+A9D7", "U+A9D8", "U+A9D9" >>,
       << "U+A9F0", "U+A9F1", "U+A9F2", "U+A9F3", "U+A9F4", "U+A9F5", "U+A9F6", "U+A9F7", "U+A9F8", "U+A9F9" >>,
       << "U+AA50", "U+AA51", "U+AA52", "U+AA53", "U+AA54", "U+AA55", "U+AA56", "U+AA57", "U+AA58", "U+AA59" >>,
       << "U+ABF0", "U+ABF1", "U+ABF2", "U+ABF3", "U+ABF4", "U+ABF5", "U+ABF6", "U+ABF7", "U+ABF8", "U+ABF9" >>,
       << "U+FF10", "U+FF11", "U+FF12", "U+FF13", "U+FF14", "U+FF15", "U+FF16", "U+FF17", "U+FF18", "U+FF19" >>,
       << "U+104A0", "U+104A1", "U+104A2", "U+104A3", "U+104A4", "U+104A5", "U+104A6", "U+104A7", "U+104A8", "U+104A9" >>,
       << "U+10D30", "U+10D31", "U+10D32", "U+10D33", "U+10D34", "U+10D35", "U+10D36", "U+10D37", "U+10D38", "U+10D39" >>,
       << "U+11066", "U+11067", "U+11068", "U+11069", "U+1106A", "U+1106B", "U+1106C", "U+1106D", "U+1106E", "U+1106F" >>,
       << "U+110F0", "U+110F1", "U+110F2", "U+110F3", "U+110F4", "U+110F5", "U+110F6", "U+110F7", "U+110F8", "U+110F9" >>,
       << "U+11136", "U+11137", "U+11138", "U+11139", "U+1113A", "U+1113B", "U+1113C", "U+1113D", "U+1113E", "U+1113F" >>,
       << "U+111D0", "U+111D1", "U+111D2", "U+111D3", "U+111D4", "U+111D5", "U+111D6", "U+111D7", "U+111D8", "U+111D9" >>,
       << "U+112F0", "U+112F1", "U+112F2", "U+112F3", "U+112F4", "U+112F5", "U+112F6", "U+112F7", "U+112F8", "U+112F9" >>,
       << "U+11450", "U+11451", "U+11452", "U+11453", "U+11454", "U+11455", "U+11456", "U+11457", "U+11458", "U+11459" >>,
       << "U+114D0", "U+114D1", "U+114D2", "U+114D3", "U+114D4", "U+114D5", "U+114D6", "U+114D7", "U+114D8", "U+114D9" >>,
       << "U+11650", "U+11651", "U+11652", "U+11653", "U+11654", "U+11655", "U+11656", "U+11657", "U+11658", "U+11659" >>,
       << "U+116C0", "U+116C1", "U+116C2", "U+116C3", "U+116C4", "U+116C5", "U+116C6", "U+116C7", "U+116C8", "U+116C9" >>,
       << "U+11730", "U+11731", "U+11732", "U+11733", "U+11734", "U+11735", "U+11736", "U+11737", "U+11738", "U+11739" >>,
       << "U+118E0", "U+118E1", "U+118E2", "U+118E3", "U+118E4", "U+118E5", "U+118E6", "U+118E7", "U+118E8", "U+118E9" >>,
       << "U+11950", "U+11951", "U+11952", "U+11953", "U+11954", "U+11955", "U+11956", "U+11957", "U+11958", "U+11959" >>,
       << "U+11C50", "U+11C51", "U+11C52", "U+11C53", "U+11C54", "U+11C55", "U+11C56", "U+11C57", "U+11C58", "U+11C59" >>,
       << "U+11D50", "U+11D51", "U+11D52", "U+11D53", "U+11D54", "U+11D55", "U+11D56", "U+11D57", "U+11D58", "U+11D59" >>,
       << "U+11DA0", "U+11DA1", "U+11DA2", "U+11DA3", "U+11DA4", "U+11DA5", "U+11DA6", "U+11DA7", "U+11DA8", "U+11DA9" >>,
       << "U+16A60", "U+16A61", "U+16A62", "U+16A63", "U+16A64", "U+16A65", "U+16A66", "U+16A67", "U+16A68", "U+16A69" >>,
       << "U+16AC0", "U+16AC1", "U+16AC2", "U+16AC3", "U+16AC4", "U+16AC5", "U+16AC6", "U+16AC7", "U+16AC8", "U+16AC9" >>,
       << "U+16B50", "U+16B51", "U+16B52", "U+16B53", "U+16B54", "U+16B55", "U+16B56", "U+16B57", "U+16B58", "U+16B59" >>,
       << "U+1D7CE", "U+1D7CF", "U+1D7D0", "U+1D7D1", "U+1D7D2", "U+1D7D3", "U+1D7D4", "U+1D7D5", "U+1D7D6", "U+1D7D7" >>,
       << "U+1D7D8", "U+1D7D9", "U+1D7DA", "U+1D7DB", "U+1D7DC", "U+1D7DD", "U+1D7DE", "U+1D7DF", "U+1D7E0", "U+1D7E1" >>,
       << "U+1D7E2", "U+1D7E3", "U+1D7E4", "U+1D7E5", "U+1D7E6", "U+1D7E7", "U+1D7E8", "U+1D7E9", "U+1D7EA", "U+1D7EB" >>,
       << "U+1D7EC", "U+1D7ED", "U+1D7EE", "U+1D7EF", "U+1D7F0", "U+1D7F1", "U+1D7F2", "U+1D7F3", "U+1D7F4", "U+1D7F5" >>,
       << "U+1D7F6", "U+1D7F7", "U+1D7F8", "U+1D7F9", "U+1D7FA", "U+1D7FB", "U+1D7FC", "U+1D7FD", "U+1D7FE", "U+1D7FF" >>,
       << "U+1E140", "U+1E141", "U+1E142", "U+1E143", "U+1E144", "U+1E145", "U+1E146", "U+1E147", "U+1E148", "U+1E149" >>,
       << "U+1E2F0", "U+1E2F1", "U+1E2F2", "U+1E2F3", "U+1E2F4", "U+1E2F5", "U+1E2F6", "U+1E2F7", "U+1E2F8", "U+1E2F9" >>,
       << "U+1E950", "U+1E951", "U+1E952", "U+1E953", "U+1E954", "U+1E955", "U+1E956", "U+1E957", "U+1E958", "U+1E959" >>,
       << "U+1FBF0", "U+1FBF1", "U+1FBF2", "U+1FBF3", "U+1FBF4", "U+1FBF5", "U+1FBF6", "U+1FBF7", "U+1FBF8", "U+1FBF9" >>
    >>

AllDigits == UNION { { DigitRuns[r][d] : d \in 1..10 } : r \in 1..Len(DigitRuns) }

IsDigit(c) == c \in AllDigits

DigitVal(c) ==
    CHOOSE d \in 0..9 : \E r \in 1..Len(DigitRuns) : DigitRuns[r][d + 1] = c

\* str(n) for n >= 0
RECURSIVE DecStr(_)
DecStr(n) ==
    IF n < 10 THEN << DigitChars[n + 1] >>
    ELSE DecStr(n \div 10) \o << DigitChars[(n % 10) + 1] >>

\* sys.get_int_max_str_digits() of CPython 3.11 and later, which the script
\* leaves at its default: int() refuses a string of more digits
INT_MAX_STR_DIGITS == 4300

\* the digits that stand for zero
ZeroDigits == { DigitRuns[r][1] : r \in 1..Len(DigitRuns) }

\* int(s) for a string of decimal digits: None when it raises ValueError (no
\* digit, or more than INT_MAX_STR_DIGITS of them, leading zeros included)
ParseInt(s) ==
    LET RECURSIVE value(_)
        value(t) == IF t = << >> THEN 0
                    ELSE 10 * value(SubSeq(t, 1, Len(t) - 1)) + DigitVal(t[Len(t)])
        nz    == { i \in 1..Len(s) : s[i] \notin ZeroDigits }
        first == CHOOSE i \in nz : \A j \in nz : i <= j
    IN  IF s = << >> \/ Len(s) > INT_MAX_STR_DIGITS THEN None
        ELSE IF nz = {} THEN Some(0)
        ELSE Some(value(SubSeq(s, first, Len(s))))

\* f"{n:02d}"
Format02d(n) == IF n < 10 THEN << "0" >> \o DecStr(n) ELSE DecStr(n)

\* the characters str.strip() removes: those for which str.isspace() holds
Whitespace ==
    { "\t", "\n", "U+000B", "\f", "\r", "U+001C", "U+001D", "U+001E", "U+001F",
      " ", "U+0085", "U+00A0", "U+1680", "U+2000", "U+2001", "U+2002", "U+2003",
      "U+2004", "U+2005", "U+2006", "U+2007", "U+2008", "U+2009", "U+200A", "U+2028",
      "U+2029", "U+202F", "U+205F", "U+3000" }

RECURSIVE FirstInk(_, _)
FirstInk(s, i) ==
    IF i > Len(s) THEN i
    ELSE IF s[i] \in Whitespace THEN FirstInk(s, i + 1) ELSE i

RECURSIVE LastInk(_, _)
LastInk(s, i) ==
    IF i < 1 THEN i
    ELSE IF s[i] \in Whitespace THEN LastInk(s, i - 1) ELSE i

\* s.strip()
Strip(s) ==
    LET lo == FirstInk(s, 1)
    IN  IF lo > Len(s) THEN << >> ELSE SubSeq(s, lo, LastInk(s, Len(s)))

\* the characters int() skips around a number: the whitespace of str.isspace()
\* without the separators U+001C..U+001F, which int() rejects
IntWhitespace == Whitespace \ { "U+001C", "U+001D", "U+001E", "U+001F" }

RECURSIVE IntFirstInk(_, _)
IntFirstInk(s, i) ==
    IF i > Len(s) THEN i
    ELSE IF s[i] \in IntWhitespace THEN IntFirstInk(s, i + 1) ELSE i

RECURSIVE IntLastInk(_, _)
IntLastInk(s, i) ==
    IF i < 1 THEN i
    ELSE IF s[i] \in IntWhitespace THEN IntLastInk(s, i - 1) ELSE i

\* s without the whitespace int() skips at both ends
IntStrip(s) ==
    LET lo == IntFirstInk(s, 1)
    IN  IF lo > Len(s) THEN << >> ELSE SubSeq(s, lo, IntLastInk(s, Len(s)))

\* int(s) for any string: None when it raises ValueError.  Surrounding
\* whitespace and one sign are allowed, and single underscores between digits;
\* the digits are at most INT_MAX_STR_DIGITS.
py_int(s) ==
    LET t      == IntStrip(s)
        signed == t # << >> /\ t[1] \in { "+", "-" }
        body   == IF signed THEN Tail(t) ELSE t
        n      == Len(body)
        valid  == /\ n > 0
                  /\ \A i \in 1..n : IsDigit(body[i]) \/ body[i] = "_"
                  /\ body[1] # "_" /\ body[n] # "_"
                  /\ \A i \in 1..(n - 1) : ~(body[i] = "_" /\ body[i + 1] = "_")
        value  == ParseInt(SelectSeq(body, IsDigit))
    IN  IF ~valid \/ value = None THEN None
        ELSE IF signed /\ t[1] = "-" THEN Some(0 - value[1]) ELSE value

\* "\n".join(ls)
RECURSIVE JoinLines(_)
JoinLines(ls) ==
    IF ls = << >> THEN << >>
    ELSE IF Len(ls) = 1 THEN ls[1]
    ELSE JoinLines(SubSeq(ls, 1, Len(ls) - 1)) \o << "\n" >> \o ls[Len(ls)]

\* ---------------------------------------------------------- input domains
\* A locator: a blob URL with an optional #L<l1>[-L<l2>] fragment (l1 and l2
\* are optional digit strings), or a URL of any other shape.
Locator(shape, path, l1, l2) == [shape |-> shape, path |-> path, l1 |-> l1, l2 |-> l2]

\* The lines of a file of n lines.  Line i of a "wide" file is two spaces and
\* 40 + i letters, line i of a "narrow" file is one space, i letters and one
\* space, line i of an "nbsp" file is a no-break space, 28 + i letters and an
\* ideographic space, and every line of a "blank" file is one space.
LineOf(kind, i) ==
    IF kind = "wide" THEN << " ", " " >> \o [k \in 1..(40 + i) |-> "a"]
    ELSE IF kind = "nbsp" THEN << "U+00A0" >> \o [k \in 1..(28 + i) |-> "a"] \o << "U+3000" >>
    ELSE IF kind = "narrow" THEN << " " >> \o [k \in 1..i |-> "a"] \o << " " >>
    ELSE << " " >>

FileOf(kind, n) == [i \in 1..n |-> LineOf(kind, i)]

\* What urlopen(raw_url).read().decode().splitlines() gives: an error, or the
\* lines of the file.
NetError == [ok |-> FALSE, lines |-> << >>]
NetLines(ls) == [ok |-> TRUE, lines |-> ls]

\* ------------------------------------------------------- snippet resolver
\* github_url_to_raw: None when it raises ValueError (the URL does not match,
\* or int() refuses l1 or l2), else the raw path and the 1-based line range.
github_url_to_raw(url) ==
    IF url.shape # "blob" THEN None
    ELSE LET start == IF url.l1 # None THEN ParseInt(url.l1[1]) ELSE Some(1)
             end   == IF url.l2 # None THEN ParseInt(url.l2[1])
                      ELSE IF start = None THEN None ELSE Some(start[1] + DEFAULT_WINDOW)
         IN  IF start = None \/ end = None THEN None
             ELSE Some([raw |-> url.path, start |-> start[1], end |-> end[1]])

\* the start line taken as a 0-based index
snippet_of_from_start(lines, start0, end0) ==
    LET start == Max(0, start0)
        end   == Min(Len(lines), end0)
    IN  Strip(JoinLines(PySlice(lines, start, end)))

\* the snippet cut out of the fetched lines (the body of the try block after
\* the fetch)
snippet_of(lines, start0, end0) ==
    LET start == Max(0, start0 - 1)
        end   == Min(Len(lines), end0)
    IN  Strip(JoinLines(PySlice(lines, start, end)))

\* fetch_code(url), given what the network answers for the raw URL
fetch_code(url, resp) ==
    LET parsed == github_url_to_raw(url)
    IN  IF parsed = None THEN None
        ELSE IF ~resp.ok THEN None
        ELSE LET snippet == snippet_of(resp.lines, parsed[1].start, parsed[1].end)
             IN  IF Len(snippet) < MIN_SNIPPET_LEN THEN None
                 ELSE Some(PySliceTo(snippet, MAX_SNIPPET_LEN))

\* ------------------------------------------------------- annotation loader
\* int(r["Relevance"] or 0): None when int raises ValueError
relevance_of(field) == IF field = << >> THEN Some(0) ELSE py_int(field)

\* some row makes line 38 raise
some_relevance_raises(rows) == \E i \in 1..Len(rows) : relevance_of(rows[i].Relevance) = None

IsPython(r) == r.Language = "Python"

\* by_query as the sequence of its items, in insertion order
RECURSIVE group_by_query(_)
group_by_query(py_rows) ==
    IF py_rows = << >> THEN << >>
    ELSE LET front == group_by_query(SubSeq(py_rows, 1, Len(py_rows) - 1))
             r     == py_rows[Len(py_rows)]
             c     == [url |-> r.GitHubUrl, relevance |-> relevance_of(r.Relevance)[1]]
             at    == { i \in 1..Len(front) : front[i].q = r.Query }
         IN  IF at = {} THEN Append(front, [q |-> r.Query, cs |-> << c >>])
             ELSE [i \in 1..Len(front) |->
                     IF i \in at THEN [front[i] EXCEPT !.cs = Append(@, c)] ELSE front[i]]

\* --------------------------------------------------------- query selector
IsPositive(c) == c.relevance >= RELEVANCE_THRESHOLD
IsNegative(c) == c.relevance < RELEVANCE_THRESHOLD

positives_of(candidates) == SelectSeq(candidates, IsPositive)
negatives_of(candidates) == SelectSeq(candidates, IsNegative)

IsGood(item) == Len(positives_of(item.cs)) >= MIN_POSITIVES

\* sorted(items, key = -#positives): a stable sort, as an insertion sort
RECURSIVE sorted_by_positives(_)
sorted_by_positives(items) ==
    IF items = << >> THEN << >>
    ELSE LET front == sorted_by_positives(SubSeq(items, 1, Len(items) - 1))
             x     == items[Len(items)]
             k     == Len(positives_of(x.cs))
             keep  == Cardinality({ i \in 1..Len(front) : Len(positives_of(front[i].cs)) >= k })
         IN  SubSeq(front, 1, keep) \o << x >> \o SubSeq(front, keep + 1, Len(front))

select_good_queries(by_q) ==
    PySliceTo(sorted_by_positives(SelectSeq(by_q, IsGood)), TARGET_QUERIES)

\* -------------------------------------------------------- candidate sampler
\* selected = positives + negatives[:MAX_CANDIDATES - len(positives)]
selected_of(candidates) ==
    LET positives == positives_of(candidates)
        negatives == negatives_of(candidates)
    IN  positives \o PySliceTo(negatives, MAX_CANDIDATES - Len(positives))

RECURSIVE build_fetch_jobs(_)
build_fetch_jobs(good) ==
    IF good = << >> THEN << >>
    ELSE LET item == good[Len(good)]
             sel  == selected_of(item.cs)
         IN  build_fetch_jobs(SubSeq(good, 1, Len(good) - 1)) \o
             [k \in 1..Len(sel) |->
                 [query |-> item.q, url |-> sel[k].url, relevance |-> sel[k].relevance]]

\* -------------------------------------------------------- dataset assembler
\* results.get(url)
results_get(res, url) == IF url \in DOMAIN res THEN res[url] ELSE None

\* truth value of a str | None
Truthy(code) == code # None /\ code[1] # << >>

\* f"q_{qi:02d}"
qid_of(qi) == << "q", "_" >> \o Format02d(qi)

\* a chunk id without the query id
cid_without_query(qid, n) == << "c" >> \o Format02d(n)

\* f"{qid}_c{n:02d}"
cid_of(qid, n) == qid \o << "_", "c" >> \o Format02d(n)

\* chunks numbered by their position in the sample
RECURSIVE q_chunks_by_position(_, _, _, _)
q_chunks_by_position(qid, selected, res, n0) ==
    IF selected = << >> THEN << >>
    ELSE LET front == q_chunks_by_position(qid, SubSeq(selected, 1, Len(selected) - 1), res, n0)
             c     == selected[Len(selected)]
             code  == results_get(res, c.url)
         IN  IF ~Truthy(code) THEN front
             ELSE Append(front, [id         |-> cid_of(qid, n0 + Len(selected)),
                                 query_id   |-> qid,
                                 relevance  |-> c.relevance,
                                 source_url |-> c.url,
                                 code       |-> code[1]])

\* the loop over selected (lines 117-130): the chunks of one query, numbered
\* from chunk_counter[qid] = n0 on
RECURSIVE q_chunks_of(_, _, _, _)
q_chunks_of(qid, selected, res, n0) ==
    IF selected = << >> THEN << >>
    ELSE LET front == q_chunks_of(qid, SubSeq(selected, 1, Len(selected) - 1), res, n0)
             c     == selected[Len(selected)]
             code  == results_get(res, c.url)
         IN  IF ~Truthy(code) THEN front
             ELSE Append(front, [id         |-> cid_of(qid, n0 + Len(front) + 1),
                                 query_id   |-> qid,
                                 relevance  |-> c.relevance,
                                 source_url |-> c.url,
                                 code       |-> code[1]])

ids_of(chunks) == [i \in 1..Len(chunks) |-> chunks[i].id]

relevant_ids_of(q_chunks) == ids_of(SelectSeq(q_chunks, IsPositive))

\* the re-check of MIN_POSITIVES left out
query_is_kept_nonempty(q_chunks) == q_chunks # << >>

\* the re-check of MIN_POSITIVES off by one
query_is_kept_strict(q_chunks) ==
    /\ q_chunks # << >>
    /\ Len(SelectSeq(q_chunks, IsPositive)) > MIN_POSITIVES

\* the condition under which the loop body reaches queries_raw.append
query_is_kept(q_chunks) ==
    /\ q_chunks # << >>
    /\ Len(relevant_ids_of(q_chunks)) >= MIN_POSITIVES

\* {c["id"]: c["relevance"] for c in q_chunks}
relevance_scores_of(q_chunks) ==
    [id \in { q_chunks[i].id : i \in 1..Len(q_chunks) } |->
        LET last == CHOOSE i \in 1..Len(q_chunks) :
                        /\ q_chunks[i].id = id
                        /\ \A j \in 1..Len(q_chunks) : q_chunks[j].id = id => j <= i
        IN  q_chunks[last].relevance]

eval_query_of(qid, query, q_chunks) ==
    [id              |-> qid,
     query           |-> query,
     relevantIds     |-> relevant_ids_of(q_chunks),
     relevanceScores |-> relevance_scores_of(q_chunks),
     chunkIds        |-> ids_of(q_chunks)]

\* ---------------------------------------------------- embedding, serializer
DIMS == 384

\* the embedder, a black box: one vector of DIMS numbers per text
encode(texts) == [i \in 1..Len(texts) |-> [dims |-> DIMS, of |-> Len(texts[i])]]

chunk_out(c, e) ==
    [id |-> c.id, query_id |-> c.query_id, relevance |-> c.relevance,
     code |-> c.code, embedding |-> e]

query_out(q, e) ==
    [id |-> q.id, query |-> q.query, relevantIds |-> q.relevantIds,
     relevanceScores |-> q.relevanceScores, chunkIds |-> q.chunkIds, embedding |-> e]

\* what json.dump writes, as the sequence of its pieces
dump_pieces(out) ==
    << "{" >> \o [i \in 1..Len(out.chunks) |-> "chunk"]
              \o [i \in 1..Len(out.queries) |-> "query"] \o << "}" >>

\* ------------------------------------------------------------------ state
VARIABLES
    feed,           \* the annotation feed: the rows of the CSV (input)
    pc,             \* the statement the main thread is at
    py_rows,        \* the Python rows of the feed
    by_query,       \* items of by_query, in insertion order
    good_queries,   \* the selected queries
    fetch_jobs,     \* (query, url, relevance) per sampled candidate
    futures,        \* the futures submitted to the pool, one per element
    results,        \* results: url -> str | None
    qi,             \* index of the assembler's loop
    chunk_counter,  \* chunk_counter: qid -> int
    chunks_raw,
    queries_raw,
    embeddings,     \* what model.encode returned
    output,         \* the output document (None until built)
    file,           \* the file at OUT_PATH: None, or the pieces written so far
    s_candidates,   \* sampler specification: a query's candidate list
    s_selected,     \* sampler specification: None, or the sample taken
    r_url,          \* resolver specification: the locator
    r_resp,         \* resolver specification: what the network answers
    r_state,        \* resolver specification: "ready" or "returned"
    r_result        \* resolver specification: what fetch_code returned

mem == << py_rows, by_query, good_queries, fetch_jobs, futures, results, qi,
          chunk_counter, chunks_raw, queries_raw, embeddings, output >>
svars == << s_candidates, s_selected >>
rvars == << r_url, r_resp, r_state, r_result >>
vars == << feed, pc, mem, file, svars, rvars >>

Queries == { "qa", "qb" }
U1 == Locator("blob", "a.py", None, None)
U2 == Locator("blob", "b.py", Some(<< "1" >>), None)
U3 == Locator("blob", "c.py", Some(<< "2" >>), Some(<< "9" >>))
URLs == { U1, U2 }
RelevanceFields == { << "1" >>, << "2" >> }

Row(lang, q, url, rel) == [Language |-> lang, Query |-> q, GitHubUrl |-> url, Relevance |-> rel]

RowKinds ==
    [Language : { "Python" }, Query : Queries, GitHubUrl : URLs, Relevance : RelevanceFields]

\* every feed of at most MaxRows rows
SmallFeeds == UNION { [1..n -> RowKinds] : n \in 0..MaxRows }

\* one query with relevances [3, 3, 1]
FeedParseJson ==
    << Row("Python", "parse json", U1, << "3" >>),
       Row("Python", "parse json", U2, << "3" >>),
       Row("Python", "parse json", U3, << "1" >>) >>

\* two selected queries that share a locator, and a locator sampled twice
FeedShared ==
    << Row("Python", "qa", U1, << "3" >>), Row("Python", "qa", U2, << "2" >>),
       Row("Python", "qa", U1, << "0" >>),
       Row("Python", "qb", U2, << "2" >>), Row("Python", "qb", U3, << "3" >>) >>

\* rows of another language, an empty relevance, a URL of another shape, and
\* a query met first that has fewer positives than a later one
FeedMixed ==
    << Row("Python", "qb", U1, << "2" >>), Row("Java", "qa", U1, << "3" >>),
       Row("Python", "qa", U2, << "3" >>), Row("Python", "qb", U2, << "3" >>),
       Row("Python", "qa", U1, << "2" >>), Row("Python", "qc", U1, << >>),
       Row("Python", "qa", Locator("other", "gist", None, None), << "3" >>) >>

\* relevances int() reads although they are not plain ASCII digits: " +2",
\* an Arabic-Indic 3, "1_0" and "-1"
FeedSigned ==
    << Row("Python", "qa", U1, << " ", "+", "2" >>), Row("Python", "qa", U2, << "U+0663" >>),
       Row("Python", "qa", U3, << "1", "_", "0" >>), Row("Python", "qa", U2, << "-", "1" >>) >>

\* a relevance str.strip() would clean but int() rejects: U+001C before the 2
FeedSeparator ==
    << Row("Python", "qa", U1, << "2" >>), Row("Python", "qa", U2, << "U+001C", "2" >>),
       Row("Python", "qa", U3, << "U+00A0", "3", "U+3000" >>) >>

\* relevances padded with whitespace int() skips
FeedPadded ==
    << Row("Python", "qa", U1, << "U+00A0", "2", "\t" >>), Row("Python", "qa", U2, << "U+2003", "3" >>),
       Row("Python", "qa", U3, << "0", "U+0085" >>) >>

\* n digits: zeros and then d
ZeroPadded(n, d) == [i \in 1..n |-> IF i < n THEN "0" ELSE d]

\* a relevance of as many digits as int() reads, then one of a digit more
FeedDigitLimit ==
    << Row("Python", "qa", U1, ZeroPadded(INT_MAX_STR_DIGITS, "2")),
       Row("Python", "qa", U2, ZeroPadded(INT_MAX_STR_DIGITS + 1, "2")) >>

\* a relevance int() rejects
FeedNotANumber ==
    << Row("Python", "qa", U1, << "3" >>), Row("Python", "qa", U2, << "n", "/", "a" >>) >>

ScenarioFeeds ==
    { FeedParseJson, FeedShared, FeedMixed, FeedSigned, FeedSeparator, FeedPadded,
      FeedDigitLimit, FeedNotANumber }

Feeds == SmallFeeds \cup ScenarioFeeds

\* what the network may answer to a worker of the pool
PoolResponses == { NetError, NetLines(FileOf("narrow", 2)), NetLines(FileOf("wide", 2)) }

EmptyMap == << >>

MemInit ==
    /\ py_rows = << >>
    /\ by_query = << >>
    /\ good_queries = << >>
    /\ fetch_jobs = << >>
    /\ futures = << >>
    /\ results = EmptyMap
    /\ qi = 0
    /\ chunk_counter = EmptyMap
    /\ chunks_raw = << >>
    /\ queries_raw = << >>
    /\ embeddings = << >>
    /\ output = None

SIdle == s_candidates = << >> /\ s_selected = None
RIdle == r_url = U1 /\ r_resp = [ok |-> FALSE, kind |-> "blank", n |-> 0] /\ r_state = "ready" /\ r_result = None

Init ==
    /\ feed \in Feeds
    /\ pc = "start"
    /\ MemInit
    /\ file = None
    /\ SIdle
    /\ RIdle

\* ---------------------------------------------------------------- actions
\* lines 25-31: fetch and parse the feed; urlopen may raise
FetchAnnotations ==
    /\ pc = "start"
    /\ \/ /\ pc' = "loaded"
          /\ py_rows' = SelectSeq(feed, IsPython)
       \/ /\ pc' = "crashed"
          /\ UNCHANGED py_rows
    /\ UNCHANGED << feed, by_query, good_queries, fetch_jobs, futures, results, qi,
                    chunk_counter, chunks_raw, queries_raw, embeddings, output,
                    file, svars, rvars >>

\* lines 34-39
GroupByQuery ==
    /\ pc = "loaded"
    /\ IF some_relevance_raises(py_rows)
       THEN pc' = "crashed" /\ UNCHANGED by_query
       ELSE pc' = "grouped" /\ by_query' = group_by_query(py_rows)
    /\ UNCHANGED << feed, py_rows, good_queries, fetch_jobs, futures, results, qi,
                    chunk_counter, chunks_raw, queries_raw, embeddings, output,
                    file, svars, rvars >>

\* lines 42-48
SelectQueries ==
    /\ pc = "grouped"
    /\ good_queries' = select_good_queries(by_query)
    /\ pc' = "selected"
    /\ UNCHANGED << feed, py_rows, by_query, fetch_jobs, futures, results, qi,
                    chunk_counter, chunks_raw, queries_raw, embeddings, output,
                    file, svars, rvars >>

\* lines 83-89
BuildFetchJobs ==
    /\ pc = "selected"
    /\ fetch_jobs' = build_fetch_jobs(good_queries)
    /\ pc' = "jobs"
    /\ UNCHANGED << feed, py_rows, by_query, good_queries, futures, results, qi,
                    chunk_counter, chunks_raw, queries_raw, embeddings, output,
                    file, svars, rvars >>

\* lines 93-94: the next pool.submit(fetch_code, url) of the comprehension,
\* one per element of fetch_jobs; the pool runs a submitted job at once
SubmitNext ==
    /\ pc = "jobs"
    /\ Len(futures) < Len(fetch_jobs)
    /\ futures' = Append(futures, [url    |-> fetch_jobs[Len(futures) + 1].url,
                                   state  |-> "pending",
                                   result |-> None])
    /\ UNCHANGED << feed, pc, py_rows, by_query, good_queries, fetch_jobs, results, qi,
                    chunk_counter, chunks_raw, queries_raw, embeddings, output,
                    file, svars, rvars >>

\* lines 94-96: every job is submitted, the as_completed loop starts
StartCollecting ==
    /\ pc = "jobs"
    /\ Len(futures) = Len(fetch_jobs)
    /\ pc' = "pool"
    /\ UNCHANGED << feed, mem, file, svars, rvars >>

\* a worker thread runs fetch_code(url) to its return
WorkerFetch(j, resp) ==
    /\ pc \in { "jobs", "pool" }
    /\ futures[j].state = "pending"
    /\ futures' = [futures EXCEPT ![j].state = "finished",
                                  ![j].result = fetch_code(futures[j].url, resp)]
    /\ UNCHANGED << feed, pc, py_rows, by_query, good_queries, fetch_jobs, results, qi,
                    chunk_counter, chunks_raw, queries_raw, embeddings, output,
                    file, svars, rvars >>

\* lines 96-101: as_completed yields a finished future; its result is stored
CollectCompleted(j) ==
    /\ pc = "pool"
    /\ futures[j].state = "finished"
    /\ futures' = [futures EXCEPT ![j].state = "yielded"]
    /\ results' = [u \in DOMAIN results \cup { futures[j].url } |->
                      IF u = futures[j].url THEN futures[j].result ELSE results[u]]
    /\ UNCHANGED << feed, pc, py_rows, by_query, good_queries, fetch_jobs, qi,
                    chunk_counter, chunks_raw, queries_raw, embeddings, output,
                    file, svars, rvars >>

\* the loop left as soon as no resolution is pending
none_pending(fs) == \A j \in 1..Len(fs) : fs[j].state # "pending"

\* as_completed is exhausted once every future has been yielded
all_yielded(fs) == \A j \in 1..Len(fs) : fs[j].state = "yielded"

\* lines 96-109: the loop and the with block end, the assembler starts
LeavePool ==
    /\ pc = "pool"
    /\ all_yielded(futures)
    /\ chunks_raw' = << >>
    /\ queries_raw' = << >>
    /\ chunk_counter' = EmptyMap
    /\ qi' = 0
    /\ pc' = "assemble"
    /\ UNCHANGED << feed, py_rows, by_query, good_queries, fetch_jobs, futures, results,
                    embeddings, output, file, svars, rvars >>

\* lines 111-148: one iteration of the assembler's loop
AssembleQuery ==
    /\ pc = "assemble"
    /\ qi < Len(good_queries)
    /\ LET item     == good_queries[qi + 1]
           qid      == qid_of(qi)
           selected == selected_of(item.cs)
           n0       == IF qid \in DOMAIN chunk_counter THEN chunk_counter[qid] ELSE 0
           q_chunks == q_chunks_of(qid, selected, results, n0)
       IN  /\ chunk_counter' =
                 IF q_chunks = << >> THEN chunk_counter
                 ELSE [k \in DOMAIN chunk_counter \cup { qid } |->
                          IF k = qid THEN n0 + Len(q_chunks) ELSE chunk_counter[k]]
           /\ IF query_is_kept(q_chunks)
              THEN /\ queries_raw' = Append(queries_raw, eval_query_of(qid, item.q, q_chunks))
                   /\ chunks_raw' = chunks_raw \o q_chunks
              ELSE UNCHANGED << queries_raw, chunks_raw >>
    /\ qi' = qi + 1
    /\ UNCHANGED << feed, pc, py_rows, by_query, good_queries, fetch_jobs, futures,
                    results, embeddings, output, file, svars, rvars >>

\* line 150: the loop is over
FinishAssembly ==
    /\ pc = "assemble"
    /\ qi = Len(good_queries)
    /\ pc' = "embed"
    /\ UNCHANGED << feed, mem, file, svars, rvars >>

\* lines 153-165: load the model and embed; either may raise
Embed ==
    /\ pc = "embed"
    /\ \/ /\ embeddings' = encode(
                 [i \in 1..Len(chunks_raw) |-> chunks_raw[i].code] \o
                 [i \in 1..Len(queries_raw) |-> queries_raw[i].query])
          /\ pc' = "embedded"
       \/ /\ pc' = "crashed"
          /\ UNCHANGED embeddings
    /\ UNCHANGED << feed, py_rows, by_query, good_queries, fetch_jobs, futures, results,
                    qi, chunk_counter, chunks_raw, queries_raw, output, file, svars, rvars >>

\* lines 168-199
AssembleOutput ==
    /\ pc = "embedded"
    /\ LET n_chunks == Len(chunks_raw)
           chunk_embeddings == PySliceTo(embeddings, n_chunks)
           query_embeddings == PySlice(embeddings, n_chunks, Len(embeddings))
           chunks_out  == [i \in 1..Len(chunks_raw) |->
                              chunk_out(chunks_raw[i], chunk_embeddings[i])]
           queries_out == [i \in 1..Len(queries_raw) |->
                              query_out(queries_raw[i], query_embeddings[i])]
       IN  output' = Some([dims       |-> DIMS,
                           queryCount |-> Len(queries_out),
                           chunkCount |-> Len(chunks_out),
                           chunks     |-> chunks_out,
                           queries    |-> queries_out])
    /\ pc' = "output"
    /\ UNCHANGED << feed, py_rows, by_query, good_queries, fetch_jobs, futures, results,
                    qi, chunk_counter, chunks_raw, queries_raw, embeddings, file,
                    svars, rvars >>

\* lines 201-202: open(OUT_PATH, "w") creates or truncates the file; mkdir or
\* open may raise OSError, which leaves the file as it was
OpenOutput ==
    /\ pc = "output"
    /\ \/ /\ file' = Some(<< >>)
          /\ pc' = "writing"
       \/ /\ pc' = "crashed"
          /\ UNCHANGED file
    /\ UNCHANGED << feed, mem, svars, rvars >>

\* line 203: json.dump writes the document piece by piece; a write may raise
\* OSError, which leaves the pieces written so far
DumpPiece ==
    /\ pc = "writing"
    /\ Len(file[1]) < Len(dump_pieces(output[1]))
    /\ \/ /\ file' = Some(Append(file[1], dump_pieces(output[1])[Len(file[1]) + 1]))
          /\ UNCHANGED pc
       \/ /\ pc' = "crashed"
          /\ UNCHANGED file
    /\ UNCHANGED << feed, mem, svars, rvars >>

\* lines 203-207: the dump is over and the file is closed
CloseOutput ==
    /\ pc = "writing"
    /\ Len(file[1]) = Len(dump_pieces(output[1]))
    /\ pc' = "done"
    /\ UNCHANGED << feed, mem, file, svars, rvars >>

\* the process is terminated from outside: its memory is gone, the file stays
Terminate ==
    /\ pc \notin { "done", "crashed", "killed" }
    /\ pc' = "killed"
    /\ py_rows' = << >>
    /\ by_query' = << >>
    /\ good_queries' = << >>
    /\ fetch_jobs' = << >>
    /\ futures' = << >>
    /\ results' = EmptyMap
    /\ qi' = 0
    /\ chunk_counter' = EmptyMap
    /\ chunks_raw' = << >>
    /\ queries_raw' = << >>
    /\ embeddings' = << >>
    /\ output' = None
    /\ UNCHANGED << feed, file, svars, rvars >>

Next ==
    \/ FetchAnnotations
    \/ GroupByQuery
    \/ SelectQueries
    \/ BuildFetchJobs
    \/ SubmitNext
    \/ StartCollecting
    \/ \E j \in 1..Len(futures) : \E resp \in PoolResponses : WorkerFetch(j, resp)
    \/ \E j \in 1..Len(futures) : CollectCompleted(j)
    \/ LeavePool
    \/ AssembleQuery
    \/ FinishAssembly
    \/ Embed
    \/ AssembleOutput
    \/ OpenOutput
    \/ DumpPiece
    \/ CloseOutput
    \/ Terminate

Spec == Init /\ [][Next]_vars

\* ------------------------------------------------- sampler specification
\* The candidate sampler alone, on every candidate list of at most MaxCands
\* candidates of relevance 1 (negative) or 2 (positive).  The candidate at
\* position i refers to line i of the file.
SInit ==
    /\ feed = << >>
    /\ pc = "idle"
    /\ MemInit
    /\ file = None
    /\ SIdle
    /\ RIdle

SAppend(rel) ==
    /\ s_selected = None
    /\ Len(s_candidates) < MaxCands
    /\ s_candidates' = Append(s_candidates,
          [url |-> Locator("blob", "a.py", Some(DecStr(Len(s_candidates) + 1)), None),
           relevance |-> rel])
    /\ UNCHANGED << feed, pc, mem, file, s_selected, rvars >>

\* lines 85-87 (and again 113-115)
SSample ==
    /\ s_selected = None
    /\ s_selected' = Some(selected_of(s_candidates))
    /\ UNCHANGED << feed, pc, mem, file, s_candidates, rvars >>

SNext ==
    \/ \E rel \in { 1, 2 } : SAppend(rel)
    \/ SSample

SamplerSpec == SInit /\ [][SNext]_vars

\* ------------------------------------------------ resolver specification
\* fetch_code alone, on every locator whose fragment names lines up to
\* MaxLineRef and every answer of the network: an error, or a file of at most
\* MaxFileLines lines.
\* str(n) written with the digits of run r of DigitRuns
RECURSIVE WrittenIn(_, _)
WrittenIn(r, n) ==
    IF n < 10 THEN << DigitRuns[r][n + 1] >>
    ELSE WrittenIn(r, n \div 10) \o << DigitRuns[r][(n % 10) + 1] >>

\* the scripts the fragments are written in: ASCII and Arabic-Indic
FragmentScripts == { 1, 2 }

OptLine == { None } \cup { Some(WrittenIn(r, k)) : r \in FragmentScripts, k \in 0..MaxLineRef }

\* fragment numbers at the digit limit of int() and one digit beyond it
LongLines == { Some(ZeroPadded(n, "2")) : n \in { INT_MAX_STR_DIGITS, INT_MAX_STR_DIGITS + 1 } }

Locators ==
    { Locator("other", "gist", None, None) } \cup
    { Locator("blob", "a.py", f[1], f[2]) :
        f \in { g \in OptLine \X OptLine : g[1] # None \/ g[2] = None } } \cup
    { Locator("blob", "a.py", l, None) : l \in LongLines } \cup
    { Locator("blob", "a.py", Some(<< "1" >>), l) : l \in LongLines }

FileKinds == { "wide", "narrow", "nbsp", "blank" }

\* r_resp describes the answer; response_of builds it
ResponseKinds ==
    { [ok |-> FALSE, kind |-> "blank", n |-> 0] } \cup
    [ok : { TRUE }, kind : FileKinds, n : 0..MaxFileLines]

response_of(d) == IF d.ok THEN NetLines(FileOf(d.kind, d.n)) ELSE NetError

RInit ==
    /\ feed = << >>
    /\ pc = "idle"
    /\ MemInit
    /\ file = None
    /\ SIdle
    /\ r_url \in Locators
    /\ r_resp \in ResponseKinds
    /\ r_state = "ready"
    /\ r_result = None

\* lines 66-79
RFetch ==
    /\ r_state = "ready"
    /\ r_result' = fetch_code(r_url, response_of(r_resp))
    /\ r_state' = "returned"
    /\ UNCHANGED << feed, pc, mem, file, svars, r_url, r_resp >>

RNext == RFetch

ResolverSpec == RInit /\ [][RNext]_vars

\* ------------------------------------------------------------- properties
SeqSet(s) == { s[i] : i \in 1..Len(s) }

\* the assembler has started (the pool was left)
PoolLeft == pc \in { "assemble", "embed", "embedded", "output", "writing", "done" }

\* the assembler's loop is over
AssemblerRan == pc \in { "embed", "embedded", "output", "writing", "done" }

SomeFetchFailed == \E u \in DOMAIN results : results[u] = None

QueryInvariantHolds(Q) ==
    /\ SeqSet(Q.relevantIds) \subseteq SeqSet(Q.chunkIds)
    /\ Len(Q.relevantIds) >= MIN_POSITIVES

\* C1: every emitted query has its relevantIds among its chunkIds and at
\* least MIN_POSITIVES relevantIds, whatever fetches failed, both in
\* queries_raw and in the output document.
C1_EmittedQueryInvariant ==
    /\ \A i \in 1..Len(queries_raw) : QueryInvariantHolds(queries_raw[i])
    /\ output # None =>
          \A i \in 1..Len(output[1].queries) : QueryInvariantHolds(output[1].queries[i])

\* a query was emitted although a fetch of the run failed
C1_Witness ==
    /\ AssemblerRan
    /\ queries_raw # << >>
    /\ SomeFetchFailed

ReferencedIds(Q) ==
    SeqSet(Q.chunkIds) \cup SeqSet(Q.relevantIds) \cup DOMAIN Q.relevanceScores

ChunksWithId(chunks, id) == { k \in 1..Len(chunks) : chunks[k].id = id }

\* C2: every chunk id referenced by a query (chunkIds, relevantIds, keys of
\* relevanceScores) is the id of exactly one chunk, and no two chunks share
\* an id, in chunks_raw as in the output document.
C2_ReferencedIdsIdentifyOneChunk ==
    /\ \A k1, k2 \in 1..Len(chunks_raw) : chunks_raw[k1].id = chunks_raw[k2].id => k1 = k2
    /\ \A i \in 1..Len(queries_raw) : \A id \in ReferencedIds(queries_raw[i]) :
          Cardinality(ChunksWithId(chunks_raw, id)) = 1
    /\ output # None =>
          \A i \in 1..Len(output[1].queries) : \A id \in ReferencedIds(output[1].queries[i]) :
              Cardinality(ChunksWithId(output[1].chunks, id)) = 1

\* a finished run with two queries in the output and a failed fetch
C2_Witness ==
    /\ pc = "done"
    /\ Len(output[1].queries) = 2
    /\ Len(output[1].chunks) >= 4
    /\ SomeFetchFailed

\* C4: no locator is submitted to the pool more than once.
C4_EachLocatorSubmittedOnce ==
    \A j1, j2 \in 1..Len(futures) : futures[j1].url = futures[j2].url => j1 = j2

\* C5: once every future has been yielded, the results map is determined by
\* the outcomes of the resolutions alone: the value stored for a locator is
\* the outcome of every resolution of that locator (were two resolutions of
\* one locator to end differently, the one yielded last would be stored, and
\* the map would depend on the order of completion).
C5_ResultsIndependentOfCompletionOrder ==
    (\A j \in 1..Len(futures) : futures[j].state = "yielded") =>
        \A j \in 1..Len(futures) : results_get(results, futures[j].url) = futures[j].result

IsCompleteDump(f) == f # << >> /\ f[1] = "{" /\ f[Len(f)] = "}"

\* C6: at every moment the file at OUT_PATH is either absent or one complete
\* document; in particular nothing is there after a run that crashed or was
\* terminated.
C6_AbsentOrComplete ==
    /\ file # None => IsCompleteDump(file[1])
    /\ pc \in { "crashed", "killed" } => file = None

\* the number of sampled candidates among the first p that resolved
resolved_upto(sel, res, p) ==
    Cardinality({ k \in 1..p : Truthy(results_get(res, sel[k].url)) })

positives_resolved(sel, res) ==
    Cardinality({ k \in 1..Len(sel) : IsPositive(sel[k]) /\ Truthy(results_get(res, sel[k].url)) })

HasQueryId(x) == \E k \in 0..(Len(good_queries) - 1) : x = qid_of(k)

chunks_of_query(chunks, qid) == SelectSeq(chunks, LAMBDA c : c.query_id = qid)

emitted(qid) == \E i \in 1..Len(queries_raw) : queries_raw[i].id = qid

SampleText == [k \in 1..MIN_SNIPPET_LEN |-> "a"]

\* the results maps of the other runs over the same sample
AltResults(sel) == [ { sel[k].url : k \in 1..Len(sel) } -> { None, Some(SampleText) } ]

\* C7 as claimed: a sampled candidate that yields a chunk in this run and in
\* a run with other fetch results has the same chunk id in both.
C7_SameIdInBothRuns ==
    AssemblerRan =>
        \A k \in 0..(Len(good_queries) - 1) :
            LET qid == qid_of(k)
                sel == selected_of(good_queries[k + 1].cs)
                c1  == chunks_of_query(chunks_raw, qid)
            IN  \A r2 \in AltResults(sel) :
                    LET c2 == q_chunks_of(qid, sel, r2, 0)
                    IN  \A p \in 1..Len(sel) :
                            ( /\ emitted(qid)
                              /\ Truthy(results_get(results, sel[p].url))
                              /\ query_is_kept(c2)
                              /\ Truthy(results_get(r2, sel[p].url)) )
                            => c1[resolved_upto(sel, results, p)].id =
                               c2[resolved_upto(sel, r2, p)].id

\* C7 (amended): the chunk of a sampled candidate belongs to the same query id
\* in both runs, and it has the same chunk id in both runs exactly when the
\* same number of the query's sampled candidates up to it resolved in both.
C7_SameIdIffSameResolvedCount ==
    AssemblerRan =>
        \A k \in 0..(Len(good_queries) - 1) :
            LET qid == qid_of(k)
                sel == selected_of(good_queries[k + 1].cs)
                c1  == chunks_of_query(chunks_raw, qid)
            IN  \A r2 \in AltResults(sel) :
                    LET c2 == q_chunks_of(qid, sel, r2, 0)
                    IN  \A p \in 1..Len(sel) :
                            ( /\ emitted(qid)
                              /\ Truthy(results_get(results, sel[p].url))
                              /\ query_is_kept(c2)
                              /\ Truthy(results_get(r2, sel[p].url)) )
                            => LET n1 == resolved_upto(sel, results, p)
                                   n2 == resolved_upto(sel, r2, p)
                               IN  /\ c1[n1].query_id = c2[n2].query_id
                                   /\ c1[n1].source_url = sel[p].url
                                   /\ (c1[n1].id = c2[n2].id) <=> (n1 = n2)

\* a candidate yields a chunk in this run and in a run where an earlier
\* candidate of its query, resolved here, failed
C7_Witness ==
    /\ AssemblerRan
    /\ \E k \in 0..(Len(good_queries) - 1) :
          LET qid == qid_of(k)
              sel == selected_of(good_queries[k + 1].cs)
          IN  /\ emitted(qid)
              /\ \E r2 \in AltResults(sel) : \E p \in 1..Len(sel) :
                    /\ query_is_kept(q_chunks_of(qid, sel, r2, 0))
                    /\ Truthy(results_get(results, sel[p].url))
                    /\ Truthy(results_get(r2, sel[p].url))
                    /\ resolved_upto(sel, r2, p) < resolved_upto(sel, results, p)

\* C8: a selected query the assembler has gone through is in the output
\* exactly when at least MIN_POSITIVES of its sampled candidates of relevance
\* >= RELEVANCE_THRESHOLD resolved to text in the results map; then its
\* chunkIds are as many as its resolved candidates and its relevantIds as many
\* as its resolved positives; otherwise no chunk carries its query id.
C8_KeptIffEnoughPositivesResolved ==
    PoolLeft =>
        \A k \in 0..(qi - 1) :
            LET qid == qid_of(k)
                sel == selected_of(good_queries[k + 1].cs)
                np  == positives_resolved(sel, results)
            IN  /\ emitted(qid) <=> np >= MIN_POSITIVES
                /\ \A i \in 1..Len(queries_raw) :
                      queries_raw[i].id = qid =>
                          /\ Len(queries_raw[i].relevantIds) = np
                          /\ Len(queries_raw[i].chunkIds) = resolved_upto(sel, results, Len(sel))
                          /\ Len(chunks_of_query(chunks_raw, qid)) = Len(queries_raw[i].chunkIds)
                /\ ~emitted(qid) => chunks_of_query(chunks_raw, qid) = << >>
                /\ (output # None /\ ~emitted(qid)) =>
                      /\ chunks_of_query(output[1].chunks, qid) = << >>
                      /\ \A i \in 1..Len(output[1].queries) : output[1].queries[i].id # qid

\* a finished run in which one selected query was dropped with one positive
\* resolved and another selected query was kept
C8_Witness ==
    /\ pc = "done"
    /\ output[1].queries # << >>
    /\ \E k \in 0..(Len(good_queries) - 1) :
          /\ ~emitted(qid_of(k))
          /\ positives_resolved(selected_of(good_queries[k + 1].cs), results) = 1

\* C10: from the moment the assembler starts, every submitted resolution has
\* completed, has been yielded, and has its result in the results map.
C10_AssemblerAfterAllResolutions ==
    PoolLeft =>
        \A j \in 1..Len(futures) :
            /\ futures[j].state = "yielded"
            /\ futures[j].url \in DOMAIN results

\* the assembler has gone through a query after a pool of several
\* resolutions, one of which failed
C10_Witness ==
    /\ pc = "assemble"
    /\ qi >= 1
    /\ Len(futures) >= 3
    /\ \E j \in 1..Len(futures) : futures[j].result = None

\* C3: the sample has min(|positives| + max(0, MAX_CANDIDATES - |positives|),
\* |candidates|) candidates and starts with all the positives; when the
\* positives are more than MAX_CANDIDATES it is exactly the positives.
C3_SampleSizeAndClampedBudget ==
    s_selected # None =>
        LET positives == SelectSeq(s_candidates, LAMBDA c : c.relevance >= RELEVANCE_THRESHOLD)
            np        == Len(positives)
            sel       == s_selected[1]
        IN  /\ Len(sel) = Min(np + Max(0, MAX_CANDIDATES - np), Len(s_candidates))
            /\ PySliceTo(sel, np) = positives
            /\ np > MAX_CANDIDATES => sel = positives

\* a digit string without its leading "0"s (the last digit stays)
Unpadded(digits) ==
    LET ink == { i \in 1..Len(digits) : digits[i] # "0" } \cup { Len(digits) }
    IN  SubSeq(digits, CHOOSE i \in ink : \A j \in ink : i <= j, Len(digits))

\* the number a digit string of a fragment stands for
NumberOf(digits) ==
    CHOOSE k \in 0..MaxLineRef : \E r \in FragmentScripts : WrittenIn(r, k) = Unpadded(digits)

\* a fragment number has more digits than int() reads
FragmentTooLong ==
    \E l \in { r_url.l1, r_url.l2 } : l # None /\ Len(l[1]) > INT_MAX_STR_DIGITS

RequestedStart == IF r_url.l1 = None THEN 1 ELSE NumberOf(r_url.l1[1])
RequestedEnd == IF r_url.l2 = None THEN RequestedStart + DEFAULT_WINDOW ELSE NumberOf(r_url.l2[1])

\* lines lo..hi (1-based, inclusive) of the fetched file
FileLines(lo, hi) ==
    IF lo > hi THEN << >>
    ELSE [i \in 1..(hi - lo + 1) |-> LineOf(r_resp.kind, lo + i - 1)]

\* the trimmed join of the requested range clamped to [1, n]
ClampedText == Strip(JoinLines(FileLines(Max(1, RequestedStart), Min(r_resp.n, RequestedEnd))))

\* the resolver has returned for a blob locator whose file the network serves
FileFetched == r_state = "returned" /\ r_url.shape = "blob" /\ r_resp.ok

\* C9 as claimed: the resolver returns the trimmed join of the clamped range,
\* and None for a range whose end is before its start.
C9_ReturnsTrimmedJoinOfClampedRange ==
    FileFetched =>
        IF RequestedEnd < RequestedStart THEN r_result = None
        ELSE Max(1, RequestedStart) <= Min(r_resp.n, RequestedEnd) => r_result = Some(ClampedText)

\* C9 (amended): when every fragment number has at most INT_MAX_STR_DIGITS
\* digits, the resolver returns the first MAX_SNIPPET_LEN characters of the
\* trimmed join of the clamped range, or None when the trimmed join is shorter
\* than MIN_SNIPPET_LEN; without a fragment the range is lines 1..41, and a
\* range whose end is before its start gives None.  A fragment number of more
\* digits gives None.
C9_ReturnsCappedTrimmedJoinOrNone ==
    FileFetched =>
        IF FragmentTooLong THEN r_result = None
        ELSE /\ r_result = IF Len(ClampedText) < MIN_SNIPPET_LEN THEN None
                           ELSE Some(SubSeq(ClampedText, 1,
                                            Min(Len(ClampedText), MAX_SNIPPET_LEN)))
             /\ (r_url.l1 = None /\ r_resp.n >= 41) =>
                   ClampedText = Strip(JoinLines(FileLines(1, 41)))
             /\ RequestedEnd < RequestedStart => r_result = None

\* a locator without fragment resolved to lines 1..41 of a longer file
C9_Witness ==
    /\ FileFetched
    /\ r_url.l1 = None
    /\ r_resp.n > 41
    /\ r_result = Some(Strip(JoinLines(FileLines(1, 41))))

====
